---- MODULE Spec2Model ----
(***************************************************************************)
(* ReseedingRng / ReseedingCore (src/rngs/adapter/reseeding.rs): a wrapper *)
(* around a block PRNG that reseeds it after a number of generated bytes,  *)
(* after a clone, after a process fork, or on request.                     *)
(*                                                                         *)
(* Integer widths are scaled down: the i64 countdown is I64_BITS wide, the *)
(* usize fork counter USIZE_BITS wide; both keep two's-complement          *)
(* behaviour.  A block of the inner generator is identified by the seed    *)
(* of the generator that produced it and that generator's block counter.   *)
(***************************************************************************)
EXTENDS Integers, Sequences, FiniteSets, TLC

\* ---- widths and sizes -------------------------------------------------
I64_BITS == 4
USIZE_BITS == 2
num_bytes == 4

RECURSIVE Pow2(_)
Pow2(n) == IF n = 0 THEN 1 ELSE 2 * Pow2(n - 1)

I64_RANGE == Pow2(I64_BITS)
I64_MAX == Pow2(I64_BITS - 1) - 1
U64_MAX == Pow2(I64_BITS) - 1
USIZE_RANGE == Pow2(USIZE_BITS)
ISIZE_MAX == Pow2(USIZE_BITS - 1) - 1

\* ---- bounds of the environment -----------------------------------------
SeedRange == 2
CtrRange == 3
MaxCloneAge == 2
MaxCloneForks == 1
MaxThreads == 3

Inst == {"X", "Y"}
Seeds == 0 .. (SeedRange - 1)
ThresholdBytes == {0, 1, num_bytes, num_bytes + 2, I64_MAX + 2}
CloneThresholdBytes == {0, 1, num_bytes + 2, I64_MAX + 2}
AllThresholdBytes == 0 .. U64_MAX
Threads == 1 .. MaxThreads

\* ---- two's complement helpers ------------------------------------------
WrapI64(x) == ((x + I64_RANGE \div 2) % I64_RANGE) - I64_RANGE \div 2
wrapping_sub(a, b) == (a - b) % USIZE_RANGE
as_isize(x) == IF x > ISIZE_MAX THEN x - USIZE_RANGE ELSE x

\* ---- external capabilities: generator core and reseed source ------------
NoBlock == [seed |-> -1, ctr |-> -1]

\* R::generate: one block out, state advanced by one block
inner_generate(inner) ==
  [results |-> [seed |-> inner.seed, ctr |-> inner.ctr],
   inner   |-> [inner EXCEPT !.ctr = (@ + 1) % CtrRange]]

\* outcomes a draw from the reseed source can have
Outcomes(reseeder) == IF reseeder.fallible THEN BOOLEAN ELSE {TRUE}

\* R::from_rng(&mut reseeder): a new generator from the source's next
\* material, or a failure that supplies nothing
from_rng(reseeder, ok) ==
  IF ok
  THEN [ok |-> TRUE,
        rng |-> [seed |-> reseeder.v, ctr |-> 0],
        reseeder |-> [reseeder EXCEPT !.v = (@ + reseeder.step) % SeedRange]]
  ELSE [ok |-> FALSE,
        rng |-> [seed |-> -1, ctr |-> -1],
        reseeder |-> reseeder]

\* ---- mod fork -----------------------------------------------------------
fork_handler(counter) == (counter + 1) % USIZE_RANGE

\* variant: the handler is installed on every call
register_fork_handler_every_call(registered, installed) ==
  [registered |-> TRUE, installed |-> installed + 1]

register_fork_handler(registered, installed) ==
  IF registered = FALSE
  THEN [registered |-> TRUE, installed |-> installed + 1]
  ELSE [registered |-> registered, installed |-> installed]

\* ---- ReseedingCore ------------------------------------------------------
new(rng, threshold, reseeder) ==
  LET t == IF threshold = 0 THEN I64_MAX
           ELSE IF threshold <= I64_MAX THEN threshold
           ELSE I64_MAX
  IN [inner |-> rng,
      reseeder |-> reseeder,
      threshold |-> t,
      bytes_until_reseed |-> t,
      fork_counter |-> 0]

\* variant: the countdown is reset before the new generator is derived
reseed_eager(self, ok) ==
  LET r == from_rng(self.reseeder, ok)
      s0 == [self EXCEPT !.bytes_until_reseed = self.threshold]
  IN IF r.ok
     THEN [err |-> FALSE,
           self |-> [s0 EXCEPT !.inner = r.rng, !.reseeder = r.reseeder]]
     ELSE [err |-> TRUE,
           self |-> [s0 EXCEPT !.reseeder = r.reseeder]]

\* variant: the countdown is left alone on success
reseed_keep_countdown(self, ok) ==
  LET r == from_rng(self.reseeder, ok)
  IN IF r.ok
     THEN [err |-> FALSE,
           self |-> [self EXCEPT !.inner = r.rng, !.reseeder = r.reseeder]]
     ELSE [err |-> TRUE,
           self |-> [self EXCEPT !.reseeder = r.reseeder]]

\* variant: a successful reseed also restarts the cached fork counter
reseed_resets_epoch(self, ok) ==
  LET r == from_rng(self.reseeder, ok)
  IN IF r.ok
     THEN [err |-> FALSE,
           self |-> [self EXCEPT !.bytes_until_reseed = self.threshold,
                                 !.inner = r.rng,
                                 !.reseeder = r.reseeder,
                                 !.fork_counter = 0]]
     ELSE [err |-> TRUE,
           self |-> [self EXCEPT !.reseeder = r.reseeder]]

reseed(self, ok) ==
  LET r == from_rng(self.reseeder, ok)
  IN IF r.ok
     THEN [err |-> FALSE,
           self |-> [self EXCEPT !.bytes_until_reseed = self.threshold,
                                 !.inner = r.rng,
                                 !.reseeder = r.reseeder]]
     ELSE [err |-> TRUE,
           self |-> [self EXCEPT !.reseeder = r.reseeder]]

\* variant: plain comparison of the two counters
is_forked_plain(self, global_fork_counter) ==
  self.fork_counter < global_fork_counter

\* variant: the sign test is made on the distance taken the other way round
is_forked_reversed(self, global_fork_counter) ==
  as_isize(wrapping_sub(global_fork_counter, self.fork_counter)) > 0

is_forked(self, global_fork_counter) ==
  as_isize(wrapping_sub(self.fork_counter, global_fork_counter)) < 0

\* variant: a failed reseed is returned to the caller and no block is generated
reseed_and_generate_propagate(self, global_fork_counter, ok) ==
  LET r  == reseed(self, ok)
      s1 == [r.self EXCEPT !.fork_counter = global_fork_counter]
      s2 == [s1 EXCEPT !.bytes_until_reseed = WrapI64(s1.threshold - num_bytes)]
      g  == inner_generate(s2.inner)
  IN IF r.err
     THEN [self |-> r.self, results |-> NoBlock, path |-> "slow",
           reseeded |-> FALSE, calls |-> 0, err |-> TRUE]
     ELSE [self |-> [s2 EXCEPT !.inner = g.inner], results |-> g.results,
           path |-> "slow", reseeded |-> TRUE, calls |-> 1, err |-> FALSE]

\* variant: after a failed reseed the cached fork counter is not updated
reseed_and_generate_retry(self, global_fork_counter, ok) ==
  LET r  == reseed(self, ok)
      s1 == IF r.err THEN r.self
            ELSE [r.self EXCEPT !.fork_counter = global_fork_counter]
      s2 == [s1 EXCEPT !.bytes_until_reseed = WrapI64(s1.threshold - num_bytes)]
      g  == inner_generate(s2.inner)
  IN [self |-> [s2 EXCEPT !.inner = g.inner], results |-> g.results,
      path |-> "slow", reseeded |-> ~r.err, calls |-> 1, err |-> FALSE]

\* variant: the countdown restarts at the full threshold
reseed_and_generate_full_countdown(self, global_fork_counter, ok) ==
  LET r  == reseed(self, ok)
      s1 == [r.self EXCEPT !.fork_counter = global_fork_counter]
      s2 == [s1 EXCEPT !.bytes_until_reseed = s1.threshold]
      g  == inner_generate(s2.inner)
  IN [self |-> [s2 EXCEPT !.inner = g.inner], results |-> g.results,
      path |-> "slow", reseeded |-> ~r.err, calls |-> 1, err |-> FALSE]

\* variant: the block's bytes are added to the threshold
reseed_and_generate_added(self, global_fork_counter, ok) ==
  LET r  == reseed(self, ok)
      s1 == [r.self EXCEPT !.fork_counter = global_fork_counter]
      s2 == [s1 EXCEPT !.bytes_until_reseed = WrapI64(s1.threshold + num_bytes)]
      g  == inner_generate(s2.inner)
  IN [self |-> [s2 EXCEPT !.inner = g.inner], results |-> g.results,
      path |-> "slow", reseeded |-> ~r.err, calls |-> 1, err |-> FALSE]

\* variant: the cached fork counter is set one past the global counter
reseed_and_generate_epoch_ahead(self, global_fork_counter, ok) ==
  LET r  == reseed(self, ok)
      s1 == [r.self EXCEPT !.fork_counter =
                             (global_fork_counter + 1) % USIZE_RANGE]
      s2 == [s1 EXCEPT !.bytes_until_reseed = WrapI64(s1.threshold - num_bytes)]
      g  == inner_generate(s2.inner)
  IN [self |-> [s2 EXCEPT !.inner = g.inner], results |-> g.results,
      path |-> "slow", reseeded |-> ~r.err, calls |-> 1, err |-> FALSE]

\* variant: the countdown goes on from where it stands after reseed()
reseed_and_generate_decrement(self, global_fork_counter, ok) ==
  LET r  == reseed(self, ok)
      s1 == [r.self EXCEPT !.fork_counter = global_fork_counter]
      s2 == [s1 EXCEPT !.bytes_until_reseed =
                         WrapI64(s1.bytes_until_reseed - num_bytes)]
      g  == inner_generate(s2.inner)
  IN [self |-> [s2 EXCEPT !.inner = g.inner], results |-> g.results,
      path |-> "slow", reseeded |-> ~r.err, calls |-> 1, err |-> FALSE]

reseed_and_generate(self, global_fork_counter, ok) ==
  LET r  == reseed(self, ok)
      s1 == [r.self EXCEPT !.fork_counter = global_fork_counter]
      s2 == [s1 EXCEPT !.bytes_until_reseed = WrapI64(s1.threshold - num_bytes)]
      g  == inner_generate(s2.inner)
  IN [self |-> [s2 EXCEPT !.inner = g.inner],
      results |-> g.results,
      path |-> "slow",
      reseeded |-> ~r.err,
      calls |-> 1,
      err |-> FALSE]

\* variant: the countdown test is strict
generate_strict(self, global_fork_counter, ok) ==
  IF self.bytes_until_reseed < 0 \/ is_forked(self, global_fork_counter)
  THEN reseed_and_generate(self, global_fork_counter, ok)
  ELSE LET s1 == [self EXCEPT !.bytes_until_reseed = WrapI64(@ - num_bytes)]
           g  == inner_generate(s1.inner)
       IN [self |-> [s1 EXCEPT !.inner = g.inner], results |-> g.results,
           path |-> "fast", reseeded |-> FALSE, calls |-> 1, err |-> FALSE]

\* variant: only a detected fork sends the call to the slow path
generate_fork_only(self, global_fork_counter, ok) ==
  IF is_forked(self, global_fork_counter)
  THEN reseed_and_generate(self, global_fork_counter, ok)
  ELSE LET s1 == [self EXCEPT !.bytes_until_reseed = WrapI64(@ - num_bytes)]
           g  == inner_generate(s1.inner)
       IN [self |-> [s1 EXCEPT !.inner = g.inner], results |-> g.results,
           path |-> "fast", reseeded |-> FALSE, calls |-> 1, err |-> FALSE]

generate(self, global_fork_counter, ok) ==
  IF self.bytes_until_reseed <= 0 \/ is_forked(self, global_fork_counter)
  THEN reseed_and_generate(self, global_fork_counter, ok)
  ELSE LET s1 == [self EXCEPT !.bytes_until_reseed = WrapI64(@ - num_bytes)]
           g  == inner_generate(s1.inner)
       IN [self |-> [s1 EXCEPT !.inner = g.inner],
           results |-> g.results,
           path |-> "fast",
           reseeded |-> FALSE,
           calls |-> 1,
           err |-> FALSE]

\* variant: the clone inherits the remaining countdown
clone_keep_countdown(self) ==
  [inner |-> self.inner,
   reseeder |-> self.reseeder,
   threshold |-> self.threshold,
   bytes_until_reseed |-> self.bytes_until_reseed,
   fork_counter |-> self.fork_counter]

\* variant: the clone gets a reseeder that has already moved on
clone_fresh_source(self) ==
  [inner |-> self.inner,
   reseeder |-> [self.reseeder EXCEPT !.v = (@ + 1) % SeedRange],
   threshold |-> self.threshold,
   bytes_until_reseed |-> 0,
   fork_counter |-> self.fork_counter]

clone(self) ==
  [inner |-> self.inner,
   reseeder |-> self.reseeder,
   threshold |-> self.threshold,
   bytes_until_reseed |-> 0,
   fork_counter |-> self.fork_counter]

\* ---- state ---------------------------------------------------------------
VARIABLES
  live,                        \* the wrappers that exist
  core,                        \* ReseedingRng.0.core of each wrapper
  results,                     \* ReseedingRng.0.results: the last block generated
  RESEEDING_RNG_FORK_COUNTER,
  FORK_HANDLER_REGISTERED,
  installed,                   \* pthread_atfork registrations made so far
  threshold_bytes,             \* the `threshold` argument each wrapper was built with
  produced,                    \* bytes generated since the last successful reseed or construction
  behind,                      \* fork events since fork_counter was last written
  forks,                       \* fork events so far
  clone_log,                   \* the source of the living clone and the operations since clone()
  pc,                          \* where each constructing thread is in register_fork_handler
  seen,                        \* what each thread loaded from FORK_HANDLER_REGISTERED
  last                         \* the operation that led to this state

vars == <<live, core, results, RESEEDING_RNG_FORK_COUNTER,
          FORK_HANDLER_REGISTERED, installed, threshold_bytes, produced,
          behind, forks, clone_log, pc, seen, last>>

threads == <<pc, seen>>

NoCore ==
  [inner |-> [seed |-> -1, ctr |-> -1],
   reseeder |-> [v |-> -1, step |-> 0, fallible |-> FALSE],
   threshold |-> 0, bytes_until_reseed |-> 0, fork_counter |-> 0]

NoOp ==
  [op |-> "none", inst |-> "X", src |-> "X", path |-> "none",
   reseeded |-> FALSE, src_ok |-> TRUE, err |-> FALSE, calls |-> 0,
   was_registered |-> FALSE,
   pre |-> NoCore, pre_results |-> NoBlock, pre_behind |-> 0,
   pre_produced |-> 0, glob |-> 0]

\* saturating counters of the bookkeeping
ProducedCap == U64_MAX + 1
Sat(x, cap) == IF x > cap THEN cap ELSE x

get_fork_counter == RESEEDING_RNG_FORK_COUNTER

NoLog == [origin |-> NoCore, ops |-> <<>>]

\* a clone is followed for MaxCloneAge operations, then dropped
Budget == "Y" \notin live \/ Len(clone_log.ops) < MaxCloneAge

Log(tag) ==
  clone_log' = IF "Y" \in live
               THEN [clone_log EXCEPT !.ops = Append(@, tag)]
               ELSE clone_log

Init ==
  /\ live = {}
  /\ core = [i \in Inst |-> NoCore]
  /\ results = [i \in Inst |-> NoBlock]
  /\ RESEEDING_RNG_FORK_COUNTER = 0
  /\ FORK_HANDLER_REGISTERED = FALSE
  /\ installed = 0
  /\ threshold_bytes = [i \in Inst |-> 0]
  /\ produced = [i \in Inst |-> 0]
  /\ behind = [i \in Inst |-> 0]
  /\ forks = 0
  /\ clone_log = NoLog
  /\ pc = [t \in Threads |-> "idle"]
  /\ seen = [t \in Threads |-> FALSE]
  /\ last = NoOp

\* ReseedingRng::new(rng, threshold, reseeder)
New(i, tbs) ==
  /\ live = {}
  /\ \E t \in tbs, s \in Seeds, v \in Seeds, step \in {0, 1}, f \in BOOLEAN :
       LET reg == register_fork_handler(FORK_HANDLER_REGISTERED, installed)
       IN /\ core' = [core EXCEPT ![i] =
                        new([seed |-> s, ctr |-> 0], t,
                            [v |-> v, step |-> step, fallible |-> f])]
          /\ threshold_bytes' = [threshold_bytes EXCEPT ![i] = t]
          /\ FORK_HANDLER_REGISTERED' = reg.registered
          /\ installed' = reg.installed
  /\ live' = live \cup {i}
  /\ results' = [results EXCEPT ![i] = NoBlock]
  /\ produced' = [produced EXCEPT ![i] = 0]
  /\ behind' = [behind EXCEPT ![i] = forks]
  /\ last' = [NoOp EXCEPT !.op = "new", !.inst = i,
                          !.was_registered = FORK_HANDLER_REGISTERED,
                          !.glob = RESEEDING_RNG_FORK_COUNTER]
  /\ UNCHANGED <<RESEEDING_RNG_FORK_COUNTER, forks, clone_log, threads>>

\* BlockRngCore::generate, called by the streaming adapter for the next block
Generate(i) ==
  /\ i \in live
  /\ Budget
  /\ \E ok \in Outcomes(core[i].reseeder) :
       LET g == get_fork_counter
           r == generate(core[i], g, ok)
       IN /\ core' = [core EXCEPT ![i] = r.self]
          /\ results' = [results EXCEPT ![i] = r.results]
          /\ produced' = [produced EXCEPT ![i] =
                            IF r.reseeded THEN num_bytes
                            ELSE Sat(@ + num_bytes, ProducedCap)]
          /\ behind' = [behind EXCEPT ![i] = IF r.path = "slow" THEN 0 ELSE @]
          /\ last' = [op |-> "generate", inst |-> i, src |-> i,
                      path |-> r.path, reseeded |-> r.reseeded,
                      src_ok |-> (r.path = "fast" \/ ok),
                      err |-> r.err, calls |-> r.calls,
                      was_registered |-> FALSE,
                      pre |-> core[i], pre_results |-> results[i],
                      pre_behind |-> behind[i],
                      pre_produced |-> produced[i], glob |-> g]
          /\ Log([op |-> "generate", inst |-> i, path |-> r.path])
  /\ UNCHANGED <<live, RESEEDING_RNG_FORK_COUNTER, FORK_HANDLER_REGISTERED,
                 installed, threshold_bytes, forks, threads>>

\* ReseedingRng::reseed
Reseed(i) ==
  /\ i \in live
  /\ Budget
  /\ \E ok \in Outcomes(core[i].reseeder) :
       LET r == reseed(core[i], ok)
       IN /\ core' = [core EXCEPT ![i] = r.self]
          /\ produced' = [produced EXCEPT ![i] = IF r.err THEN @ ELSE 0]
          /\ last' = [NoOp EXCEPT !.op = "reseed", !.inst = i, !.src = i,
                                  !.reseeded = ~r.err, !.src_ok = ok,
                                  !.err = r.err,
                                  !.pre = core[i],
                                  !.pre_results = results[i],
                                  !.pre_behind = behind[i],
                                  !.pre_produced = produced[i],
                                  !.glob = RESEEDING_RNG_FORK_COUNTER]
          /\ Log([op |-> "reseed", inst |-> i, path |-> "none"])
  /\ UNCHANGED <<live, results, RESEEDING_RNG_FORK_COUNTER,
                 FORK_HANDLER_REGISTERED, installed, threshold_bytes,
                 behind, forks, threads>>

\* ReseedingRng::clone: a new BlockRng (empty buffer) around a clone of the core
Clone(src, dst) ==
  /\ src \in live
  /\ dst \notin live
  /\ live' = live \cup {dst}
  /\ clone_log' = [origin |-> core[src], ops |-> <<>>]
  /\ core' = [core EXCEPT ![dst] = clone(core[src])]
  /\ results' = [results EXCEPT ![dst] = NoBlock]
  /\ threshold_bytes' = [threshold_bytes EXCEPT ![dst] = threshold_bytes[src]]
  /\ produced' = [produced EXCEPT ![dst] = produced[src]]
  /\ behind' = [behind EXCEPT ![dst] = behind[src]]
  /\ last' = [NoOp EXCEPT !.op = "clone", !.inst = dst, !.src = src,
                          !.pre = core[src], !.pre_results = results[src],
                          !.pre_behind = behind[src],
                          !.pre_produced = produced[src],
                          !.glob = RESEEDING_RNG_FORK_COUNTER]
  /\ UNCHANGED <<RESEEDING_RNG_FORK_COUNTER, FORK_HANDLER_REGISTERED,
                 installed, forks, threads>>

\* the process is the child of a fork: every installed handler runs once
RECURSIVE run_handlers(_, _)
run_handlers(counter, n) ==
  IF n = 0 THEN counter ELSE run_handlers(fork_handler(counter), n - 1)

Fork ==
  /\ installed > 0
  /\ Budget
  /\ Log([op |-> "fork", inst |-> "X", path |-> "none"])
  /\ RESEEDING_RNG_FORK_COUNTER' =
       run_handlers(RESEEDING_RNG_FORK_COUNTER, installed)
  /\ forks' = Sat(forks + 1, USIZE_RANGE)
  /\ behind' = [i \in Inst |-> IF i \in live
                               THEN Sat(behind[i] + 1, USIZE_RANGE)
                               ELSE behind[i]]
  /\ last' = [NoOp EXCEPT !.op = "fork", !.glob = RESEEDING_RNG_FORK_COUNTER]
  /\ UNCHANGED <<live, core, results, FORK_HANDLER_REGISTERED, installed,
                 threshold_bytes, produced, threads>>

\* the clone goes out of scope
Drop(i) ==
  /\ i \in live
  /\ live' = live \ {i}
  /\ core' = [core EXCEPT ![i] = NoCore]
  /\ results' = [results EXCEPT ![i] = NoBlock]
  /\ threshold_bytes' = [threshold_bytes EXCEPT ![i] = 0]
  /\ produced' = [produced EXCEPT ![i] = 0]
  /\ behind' = [behind EXCEPT ![i] = 0]
  /\ clone_log' = NoLog
  /\ last' = [NoOp EXCEPT !.op = "drop", !.inst = i]
  /\ UNCHANGED <<RESEEDING_RNG_FORK_COUNTER, FORK_HANDLER_REGISTERED,
                 installed, forks, threads>>

\* one wrapper, no clones
Next ==
  \/ New("X", ThresholdBytes)
  \/ Generate("X")
  \/ Reseed("X")
  \/ Fork

Spec == Init /\ [][Next]_vars

\* a wrapper and its clones
NextClone ==
  \/ New("X", CloneThresholdBytes)
  \/ \E i \in Inst : Generate(i)
  \/ \E i \in Inst : Reseed(i)
  \/ Clone("X", "Y")
  \/ Drop("Y")
  \/ (forks < MaxCloneForks /\ Fork)

SpecClone == Init /\ [][NextClone]_vars

\* wrappers built one after the other, with any threshold
NextNew ==
  \/ New("X", AllThresholdBytes)
  \/ Drop("X")
  \/ Fork

SpecNew == Init /\ [][NextNew]_vars

\* register_fork_handler() as each thread constructing a wrapper runs it:
\* the load of FORK_HANDLER_REGISTERED
RegLoad(t) ==
  /\ pc[t] = "idle"
  /\ seen' = [seen EXCEPT ![t] = FORK_HANDLER_REGISTERED]
  /\ pc' = [pc EXCEPT ![t] = IF FORK_HANDLER_REGISTERED = FALSE
                             THEN "atfork" ELSE "done"]
  /\ last' = [NoOp EXCEPT !.op = "load",
                          !.was_registered = FORK_HANDLER_REGISTERED,
                          !.glob = RESEEDING_RNG_FORK_COUNTER]
  /\ UNCHANGED <<live, core, results, RESEEDING_RNG_FORK_COUNTER,
                 FORK_HANDLER_REGISTERED, installed, threshold_bytes,
                 produced, behind, forks, clone_log>>

\* libc::pthread_atfork(None, None, Some(fork_handler))
RegAtfork(t) ==
  /\ pc[t] = "atfork"
  /\ installed' = installed + 1
  /\ pc' = [pc EXCEPT ![t] = "store"]
  /\ last' = [NoOp EXCEPT !.op = "atfork",
                          !.was_registered = FORK_HANDLER_REGISTERED,
                          !.glob = RESEEDING_RNG_FORK_COUNTER]
  /\ UNCHANGED <<live, core, results, RESEEDING_RNG_FORK_COUNTER,
                 FORK_HANDLER_REGISTERED, threshold_bytes, produced, behind,
                 forks, clone_log, seen>>

\* FORK_HANDLER_REGISTERED.store(true)
RegStore(t) ==
  /\ pc[t] = "store"
  /\ FORK_HANDLER_REGISTERED' = TRUE
  /\ pc' = [pc EXCEPT ![t] = "done"]
  /\ last' = [NoOp EXCEPT !.op = "store",
                          !.was_registered = FORK_HANDLER_REGISTERED,
                          !.glob = RESEEDING_RNG_FORK_COUNTER]
  /\ UNCHANGED <<live, core, results, RESEEDING_RNG_FORK_COUNTER, installed,
                 threshold_bytes, produced, behind, forks, clone_log, seen>>

\* threads constructing wrappers concurrently
NextReg ==
  \/ \E t \in Threads : RegLoad(t)
  \/ \E t \in Threads : RegAtfork(t)
  \/ \E t \in Threads : RegStore(t)
  \/ Fork

SpecReg == Init /\ [][NextReg]_vars

TypeOK ==
  /\ live \subseteq Inst
  /\ RESEEDING_RNG_FORK_COUNTER \in 0 .. (USIZE_RANGE - 1)
  /\ installed \in 0 .. MaxThreads
\* ---- properties -----------------------------------------------------------
IsGenerate == last.op = "generate"
IsReseed == last.op = "reseed"
Self == core[last.inst]
BlockOf(inner) == [seed |-> inner.seed, ctr |-> inner.ctr]
FirstBlock(seed) == [seed |-> seed, ctr |-> 0]
HalfRange == ISIZE_MAX + 1

\* C1: a generation call never fails: on either path it invokes the inner
\* generator's block generation exactly once and returns a filled block; when
\* the automatic reseed fails, the block is the next block of the previous
\* inner generator and no error reaches the caller.
C1_GenerateNeverFails ==
  IsGenerate =>
    /\ last.err = FALSE
    /\ last.calls = 1
    /\ results[last.inst] # NoBlock
    /\ (last.path = "slow" /\ ~last.src_ok) =>
         /\ results[last.inst] = BlockOf(last.pre.inner)
         /\ Self.inner.seed = last.pre.inner.seed

C1_Witness ==
  /\ IsGenerate /\ last.path = "slow" /\ ~last.src_ok
  /\ results[last.inst] = BlockOf(last.pre.inner)

\* C2: a failed manual reseed() returns the error and changes none of inner,
\* bytes_until_reseed, fork_counter and threshold.
C2_FailedReseedNoMutation ==
  (IsReseed /\ ~last.src_ok) =>
    /\ last.err = TRUE
    /\ Self.inner = last.pre.inner
    /\ Self.bytes_until_reseed = last.pre.bytes_until_reseed
    /\ Self.fork_counter = last.pre.fork_counter
    /\ Self.threshold = last.pre.threshold
    /\ results[last.inst] = last.pre_results

C2_Witness ==
  /\ IsReseed /\ ~last.src_ok /\ last.err
  /\ last.pre.bytes_until_reseed < last.pre.threshold
  /\ last.pre_results # NoBlock

\* C3 as stated: a successful manual reseed() replaces inner by a generator
\* newly derived from the reseed source and resets the countdown to exactly the
\* threshold_bytes given at construction, for every threshold_bytes.
C3_Original ==
  (IsReseed /\ last.src_ok) =>
    /\ last.err = FALSE
    /\ Self.inner = [seed |-> last.pre.reseeder.v, ctr |-> 0]
    /\ Self.bytes_until_reseed = threshold_bytes[last.inst]

\* C3 amended: a successful manual reseed() replaces inner by a generator newly
\* derived from the reseed source and resets the countdown to the internal
\* threshold: threshold_bytes when 0 < threshold_bytes <= i64::MAX, and
\* i64::MAX when threshold_bytes is 0 or above i64::MAX.
C3_ReseedResetsToThreshold ==
  (IsReseed /\ last.src_ok) =>
    LET tb == threshold_bytes[last.inst]
    IN /\ last.err = FALSE
       /\ Self.inner = [seed |-> last.pre.reseeder.v, ctr |-> 0]
       /\ Self.bytes_until_reseed =
            (IF tb = 0 \/ tb > I64_MAX THEN I64_MAX ELSE tb)

C3_Witness ==
  /\ IsReseed /\ last.src_ok
  /\ threshold_bytes[last.inst] = 0
  /\ last.pre.bytes_until_reseed < I64_MAX
  /\ Self.bytes_until_reseed = I64_MAX

\* a clone on which nothing but failed reseeds has been called
FreshClone(c, res) == c.bytes_until_reseed = 0 /\ res = NoBlock

CloneCopies ==
  last.op = "clone" =>
    /\ core[last.inst].inner = last.pre.inner
    /\ core[last.inst].reseeder = last.pre.reseeder
    /\ core[last.inst].threshold = last.pre.threshold
    /\ core[last.inst].fork_counter = last.pre.fork_counter
    /\ core[last.inst].bytes_until_reseed = 0
    /\ results[last.inst] = NoBlock
    /\ core[last.src] = last.pre
    /\ results[last.src] = last.pre_results

\* C4 as stated: clone() copies inner, reseed source, threshold and fork
\* counter, sets the clone's countdown to 0 and leaves the original unchanged;
\* the clone's first generation takes the slow path and its first block is the
\* first block of a generator newly derived from the reseed source.
C4_Original ==
  /\ CloneCopies
  /\ (IsGenerate /\ FreshClone(last.pre, last.pre_results)) =>
       /\ last.path = "slow"
       /\ results[last.inst] = FirstBlock(last.pre.reseeder.v)

\* C4 amended: clone() copies inner, reseed source, threshold and fork counter,
\* sets the clone's countdown to 0 and leaves the original unchanged; the
\* clone's first generation takes the slow path whatever countdown the original
\* had; its first block is the first block of a generator newly derived from
\* the reseed source when that reseed succeeds, and the next block of the
\* generator copied from the original when the reseed fails.
C4_CloneReseedsOnFirstUse ==
  /\ CloneCopies
  /\ (IsGenerate /\ FreshClone(last.pre, last.pre_results)) =>
       /\ last.path = "slow"
       /\ last.src_ok => results[last.inst] = FirstBlock(last.pre.reseeder.v)
       /\ ~last.src_ok => results[last.inst] = BlockOf(last.pre.inner)

C4_Witness ==
  /\ IsGenerate /\ last.inst = "Y"
  /\ FreshClone(last.pre, last.pre_results)
  /\ last.path = "slow" /\ last.src_ok
  /\ clone_log.origin.bytes_until_reseed > 0
  /\ ~is_forked(last.pre, last.glob)
  /\ results["Y"] = FirstBlock(last.pre.reseeder.v)

\* C5 as stated: if the global fork counter is incremented between two
\* generation calls on an instance, the next generate() on it takes the slow
\* path.
C5_Original ==
  [][(last.op = "fork" /\ last'.op = "generate"
        /\ last'.pre_results # NoBlock) => last'.path = "slow"]_vars

\* C5 amended: if the global fork counter has been incremented at least once
\* and at most isize::MAX + 1 times (half the counter's range) since the
\* instance last recorded it, the next generate() takes the slow path, whatever
\* countdown remains.
C5_ForkForcesSlowPath ==
  (IsGenerate /\ last.pre_behind >= 1 /\ last.pre_behind <= HalfRange) =>
    last.path = "slow"

C5_Witness ==
  /\ IsGenerate /\ last.path = "slow"
  /\ last.pre_results # NoBlock
  /\ last.pre_behind = 1
  /\ last.pre.bytes_until_reseed > 0
  /\ last.glob < last.pre.fork_counter

\* C6 as stated: with threshold_bytes = B > 0, a reseed source that cannot
\* fail and no fork detected, generate() takes the slow path exactly when the
\* bytes produced since the last reseed (or construction) have reached B.
C6_Original ==
  (IsGenerate /\ threshold_bytes[last.inst] > 0
     /\ ~last.pre.reseeder.fallible
     /\ ~is_forked(last.pre, last.glob)) =>
    (last.path = "slow" <=> last.pre_produced >= threshold_bytes[last.inst])

\* C6 amended: with threshold_bytes = B > 0, a reseed source that cannot fail
\* and no fork detected, generate() takes the slow path exactly when the bytes
\* produced since the last reseed (or construction) have reached
\* min(B, i64::MAX).
C6_SlowPathAtThreshold ==
  (IsGenerate /\ threshold_bytes[last.inst] > 0
     /\ ~last.pre.reseeder.fallible
     /\ ~is_forked(last.pre, last.glob)) =>
    LET b == IF threshold_bytes[last.inst] > I64_MAX THEN I64_MAX
             ELSE threshold_bytes[last.inst]
    IN last.path = "slow" <=> last.pre_produced >= b

C6_Witness ==
  /\ IsGenerate /\ last.path = "slow"
  /\ threshold_bytes[last.inst] = num_bytes + 2
  /\ ~last.pre.reseeder.fallible
  /\ ~is_forked(last.pre, last.glob)
  /\ last.pre_produced = 2 * num_bytes

\* C7: an instance built with threshold_bytes = 0 never reseeds periodically:
\* unless a fork is detected, every generate() returns the next block of the
\* generator it already held, as the unwrapped generator would.
C7_ZeroThresholdNeverReseeds ==
  (IsGenerate /\ threshold_bytes[last.inst] = 0
     /\ ~is_forked(last.pre, last.glob)) =>
    results[last.inst] = inner_generate(last.pre.inner).results

\* C8 as stated: with 0 < threshold_bytes <= one block and a reseed source
\* that always yields the same material, every block after the first equals
\* its predecessor.
C8_Original ==
  (IsGenerate /\ threshold_bytes[last.inst] > 0
     /\ threshold_bytes[last.inst] <= num_bytes
     /\ last.pre.reseeder.step = 0 /\ ~last.pre.reseeder.fallible
     /\ last.pre_results # NoBlock) =>
    results[last.inst] = last.pre_results

\* C8 amended: with 0 < threshold_bytes <= one block and a reseed source that
\* always yields the same material, every block after the first is the first
\* block of a generator derived from that material, so every block after the
\* second equals its predecessor; the second equals the first only when the
\* initial generator was derived from the same material.
C8_ReseedEveryBlock ==
  (IsGenerate /\ threshold_bytes[last.inst] > 0
     /\ threshold_bytes[last.inst] <= num_bytes
     /\ last.pre.reseeder.step = 0 /\ ~last.pre.reseeder.fallible
     /\ last.pre_results # NoBlock) =>
    /\ results[last.inst] = FirstBlock(last.pre.reseeder.v)
    /\ (last.pre_results = FirstBlock(last.pre.reseeder.v)
          => results[last.inst] = last.pre_results)

C8_Witness ==
  /\ IsGenerate /\ threshold_bytes[last.inst] = num_bytes
  /\ last.pre.reseeder.step = 0 /\ ~last.pre.reseeder.fallible
  /\ last.pre_results = FirstBlock(last.pre.reseeder.v)
  /\ last.path = "slow"
  /\ results[last.inst] = last.pre_results

\* the clone and its source have each generated one block since clone()
BothGenerated ==
  /\ "Y" \in live
  /\ Len(clone_log.ops) = 2
  /\ clone_log.ops[1].op = "generate" /\ clone_log.ops[2].op = "generate"
  /\ {clone_log.ops[1].inst, clone_log.ops[2].inst} = {"X", "Y"}

SourcePath ==
  IF clone_log.ops[1].inst = "X" THEN clone_log.ops[1].path
  ELSE clone_log.ops[2].path

\* a source that cannot fail and whose next material differs from the
\* material of the generator in use
NonDegenerate(c) ==
  /\ c.reseeder.step # 0
  /\ ~c.reseeder.fallible
  /\ c.reseeder.v # c.inner.seed

\* C9 as stated: with a non-degenerate reseed source, the first block of
\* X.clone() differs from the block X itself produces next, for any X.
C9_Original ==
  (BothGenerated /\ NonDegenerate(clone_log.origin)) =>
    results["Y"] # results["X"]

\* C9 amended: for an instance X that has countdown left and is not detected
\* as forked (its own next generation takes the fast path), and a
\* non-degenerate reseed source, the first block of X.clone() differs from the
\* block X itself produces next.
C9_CloneDiffers ==
  (BothGenerated /\ NonDegenerate(clone_log.origin) /\ SourcePath = "fast") =>
    results["Y"] # results["X"]

C9_Witness ==
  /\ BothGenerated /\ NonDegenerate(clone_log.origin)
  /\ SourcePath = "fast"
  /\ results["X"] = BlockOf(clone_log.origin.inner)
  /\ results["Y"] = FirstBlock(clone_log.origin.reseeder.v)

Disabled(c) == c.threshold = I64_MAX /\ c.bytes_until_reseed = I64_MAX

ThresholdOf(tb) == IF tb = 0 \/ tb > I64_MAX THEN I64_MAX ELSE tb

C12_ThresholdFixed ==
  /\ \A i \in live : core[i].threshold = ThresholdOf(threshold_bytes[i])
  /\ IsGenerate => Self.bytes_until_reseed <= Self.threshold

\* a clone of a clamped wrapper has generated on the slow path after a manual reseed
C12_Witness ==
  /\ IsGenerate /\ last.inst = "Y" /\ last.path = "slow"
  /\ threshold_bytes["Y"] > I64_MAX
  /\ \E k \in 1 .. Len(clone_log.ops) : clone_log.ops[k].op = "reseed"

\* C13 as stated: no step lowers a living instance's cached fork_counter, and
\* the cached fork_counter never exceeds the global fork counter.
EpochKept(i) ==
  /\ core'[i].fork_counter >= core[i].fork_counter
  /\ core'[i].fork_counter <= RESEEDING_RNG_FORK_COUNTER'

C13_Original ==
  [][\A i \in live \cap live' : EpochKept(i)]_vars

\* C13: as long as the process has forked fewer times than the fork counter
\* has values (the global counter has not wrapped around), no generate() or
\* reseed() lowers an instance's cached fork_counter, and the cached
\* fork_counter never exceeds the global fork counter.
C13_EpochMonotoneUntilWrap ==
  [][forks' < USIZE_RANGE => \A i \in live \cap live' : EpochKept(i)]_vars

\* a slow-path generation has raised the cached fork_counter before any wrap
C13_Witness ==
  /\ IsGenerate /\ last.path = "slow"
  /\ forks < USIZE_RANGE
  /\ Self.fork_counter > last.pre.fork_counter
  /\ Self.fork_counter = RESEEDING_RNG_FORK_COUNTER

\* C14: however many wrappers were constructed one after the other, the fork
\* handler is installed exactly once, and every fork adds exactly one
\* (wrapping) to the global fork counter.
C14_InstalledOnce ==
  /\ last.op = "new" => installed = 1 /\ FORK_HANDLER_REGISTERED
  /\ FORK_HANDLER_REGISTERED => installed = 1
  /\ last.op = "fork" =>
       RESEEDING_RNG_FORK_COUNTER = (last.glob + 1) % USIZE_RANGE

\* a second or later construction, in a process that has already forked
C14_SecondConstruction ==
  /\ last.op = "new" /\ last.was_registered
  /\ installed = 1
  /\ forks > 0

\* C15: when several threads run register_fork_handler() concurrently, the
\* fork handler is installed at most once, so a fork adds exactly one
\* (wrapping) to the global fork counter.
C15_AtMostOnceConcurrently ==
  /\ installed <= 1
  /\ (last.op = "fork" /\ installed > 0) =>
       RESEEDING_RNG_FORK_COUNTER = (last.glob + 1) % USIZE_RANGE

\* C16: is_forked() is true exactly when the global fork counter is ahead of
\* the cached one, modulo the counter's range, by at least 1 and at most half
\* the range, and false when the two are equal; so a generation that follows
\* fewer than half the range of forks since the instance last recorded the
\* counter detects the fork, also when the global counter has wrapped.
Ahead(cached, global) == (global - cached + USIZE_RANGE) % USIZE_RANGE

C16_ForkTestWrapTolerant ==
  IsGenerate =>
    LET d == Ahead(last.pre.fork_counter, last.glob)
    IN  /\ is_forked(last.pre, last.glob) <=> (d >= 1 /\ d <= HalfRange)
        /\ d = 0 => ~is_forked(last.pre, last.glob)
        /\ (last.pre_behind >= 1 /\ last.pre_behind < HalfRange)
             => (d = last.pre_behind /\ last.path = "slow")
        /\ (last.pre.bytes_until_reseed > 0 /\ ~(d >= 1 /\ d <= HalfRange))
             => last.path = "fast"

\* a fork is detected across the wrap-around of the global counter, at
\* exactly half the range
C16_Witness ==
  /\ IsGenerate /\ last.path = "slow"
  /\ last.pre.bytes_until_reseed > 0
  /\ last.glob < last.pre.fork_counter
  /\ Ahead(last.pre.fork_counter, last.glob) = HalfRange

\* C17: when the reseed attempted by a generation that detected a fork
\* fails, the instance's fork_counter is left as it was, so the next
\* generation detects the fork again and attempts the reseed again.
C17_FailedForkReseedRetried ==
  (/\ IsGenerate /\ last.path = "slow"
   /\ is_forked(last.pre, last.glob)
   /\ ~last.src_ok)
  => /\ Self.fork_counter = last.pre.fork_counter
     /\ is_forked(Self, RESEEDING_RNG_FORK_COUNTER)

\* C18 as stated: reseed() leaves the cached fork_counter as it was, and a
\* generation that directly follows a successful reseed() called after the
\* global fork counter was incremented takes the slow path.
ReseedKeepsEpoch ==
  last'.op = "reseed" =>
    core'[last'.inst].fork_counter = core[last'.inst].fork_counter

AfterReseed(stale) ==
  (/\ last.op = "reseed" /\ ~last.err /\ stale
   /\ last'.op = "generate" /\ last'.inst = last.inst)
  => last'.path = "slow"

C18_Original ==
  [][ReseedKeepsEpoch /\ AfterReseed(last.pre_behind >= 1)]_vars

\* C18: reseed() leaves the cached fork_counter as it was; so when the
\* global fork counter was incremented at least once and at most half the
\* counter's range of times since the instance last recorded it, and reseed()
\* is then called successfully, the generation that directly follows still
\* takes the slow path and reseeds once more.
C18_ReseedKeepsEpoch ==
  [][/\ ReseedKeepsEpoch
     /\ AfterReseed(last.pre_behind >= 1 /\ last.pre_behind <= HalfRange)]_vars

\* a stale instance, reseeded by hand with success, has generated on the
\* slow path with its countdown still full
C18_Witness ==
  /\ IsGenerate /\ last.path = "slow"
  /\ last.pre_behind >= 1 /\ last.pre_behind <= HalfRange
  /\ last.pre_produced = 0
  /\ last.pre.bytes_until_reseed = last.pre.threshold
  /\ last.pre_results # NoBlock

\* C19: clone() copies the reseeder's state, so with a reseeder that cannot
\* fail the clone and the instance it was cloned from draw the same seed at
\* their next reseed: when the source's countdown was exhausted or the source
\* was fork-stale at clone(), the clone's first block and the source's next
\* block are the same.
SourceDue ==
  \/ clone_log.origin.bytes_until_reseed <= 0
  \/ is_forked(clone_log.origin, RESEEDING_RNG_FORK_COUNTER)

C19_CloneRepeatsSource ==
  /\ last.op = "clone" => core[last.inst].reseeder = core[last.src].reseeder
  /\ (BothGenerated /\ ~clone_log.origin.reseeder.fallible /\ SourceDue) =>
       /\ SourcePath = "slow"
       /\ results["Y"] = results["X"]
       /\ results["Y"] = FirstBlock(clone_log.origin.reseeder.v)
       /\ core["Y"].reseeder = core["X"].reseeder

\* the source was fork-stale with countdown left when cloned, and both have
\* generated the same block from the same new seed
C19_Witness ==
  /\ BothGenerated /\ ~clone_log.origin.reseeder.fallible
  /\ clone_log.origin.reseeder.step # 0
  /\ clone_log.origin.bytes_until_reseed > 0
  /\ is_forked(clone_log.origin, RESEEDING_RNG_FORK_COUNTER)
  /\ results["Y"] = results["X"]
  /\ results["X"] # BlockOf(clone_log.origin.inner)

\* C20: in every reachable state, for every threshold given to new() and
\* whatever generate(), reseed() and clone() did, bytes_until_reseed is
\* greater than minus one block's bytes and at most the threshold, and no
\* generation's subtraction leaves the range of i64.
C20_CountdownInRange ==
  /\ \A i \in live :
       /\ core[i].bytes_until_reseed > -num_bytes
       /\ core[i].bytes_until_reseed <= core[i].threshold
  /\ IsGenerate =>
       Self.bytes_until_reseed =
         (IF last.path = "fast" THEN last.pre.bytes_until_reseed
          ELSE last.pre.threshold) - num_bytes

\* the countdown at its lowest: a wrapper with threshold 1 whose reseeds
\* fail has generated twice on the slow path
C20_Witness ==
  /\ IsGenerate /\ last.path = "slow" /\ ~last.src_ok
  /\ last.pre.bytes_until_reseed = 1 - num_bytes
  /\ Self.bytes_until_reseed = 1 - num_bytes

====
